---- MODULE Spec2Model ----
(***************************************************************************)
(* tinygrib2: the GRIB2 message reader (src/src/reader.rs) and the section *)
(* header readers it drives (src/src/message.rs).                          *)
(*                                                                         *)
(* The input stream is read front to back.  Its bytes are drawn when they  *)
(* are read (each read action draws the bytes it consumes from the small   *)
(* byte sets below); the stream's end is drawn the same way: a read either *)
(* obtains the bytes it asks for or finds that the stream ends, and once   *)
(* the end has been found (eof) no read obtains a byte again.              *)
(*                                                                         *)
(* u32 values are kept as the 32-bit integer with the same bit pattern, so *)
(* a u32 subtraction that wraps shows as a negative number n standing for  *)
(* 2^32 + n.                                                               *)
(***************************************************************************)
EXTENDS Integers, Naturals, Sequences, FiniteSets, TLC

VARIABLES
    pos,            \* bytes of the stream consumed so far (stream offset)
    eof,            \* a read has found the end of the stream
    pc,             \* position of read_next_message
    magic,          \* the bytes the first read_u32 of this call obtained, in stream order
    edition,        \* the edition byte read by this call, -1 if none
    prev,           \* the section that preceded hdr (0 = Indicator)
    sec,            \* section being processed (0 = Indicator), or the one just finished when pc = "header"
    hdr,            \* next_header: the last SectionHeader read
    secStart,       \* stream offset of the first byte of hdr
    limit,          \* remaining limit of the std::io::Take handed to the callback
    cbRead,         \* bytes the current callback has obtained from its sub-reader
    cbEof,          \* the current callback has been told "end of input" by its sub-reader
    cbCalls,        \* read calls the current callback has made on its sub-reader
    calls,          \* calls[s]: invocations of the callback of section s in this call (0 = handle_indicator)
    hdrs,           \* hdrs[n]: section headers carrying number n read in this call
    lastCall,       \* section of the callback invoked last in this call, -1 if none
    result,         \* what read_next_message returned: "None" while it runs
    err,            \* the Error returned, [kind, msg, expected, actual]
    callStart,      \* stream offset at which the current call started
    msgs,           \* number of calls that returned Ok(Some(()))
    raw,            \* the 4 bytes SectionHeader::read read as the u32 of hdr, in stream order
    template,       \* template_number handed to the running callback of section 3, 4 or 5, else -1
    input,          \* the streams and callbacks considered: "any", "short" or "wellformed"
    payload,        \* read_data_7_200: the bytes its reader holds
    consumed,       \* read_data_7_200: bytes read from its reader so far
    size,           \* read_data_7_200: its argument size
    drs_template,   \* read_data_7_200: its argument drs_template
    lv,             \* read_data_7_200: its local lv
    loop_p,         \* read_data_7_200: its local p
    run_length,     \* read_data_7_200: its local run_length (a u32 in two halves)
    loop_m,         \* read_data_7_200: its local m (a u32 in two halves)
    next,           \* read_data_7_200: its local next
    values,         \* read_data_7_200: its vector values, as the runs pushed
    dpc,            \* read_data_7_200: its position
    dresult,        \* read_data_7_200: what it returned, "None" while it runs
    run_start,      \* read_data_7_200: number of bytes consumed when the current run started
    number_of_values, \* read_data_7_200: drs.number_of_values, a u32
    tpl_reader,     \* DataRepresentationTemplate5_200::read: the bytes its reader holds
    tpl_consumed,   \* DataRepresentationTemplate5_200::read: bytes read from its reader so far
    tpl,            \* DataRepresentationTemplate5_200::read: its local template
    tpl_pc,         \* DataRepresentationTemplate5_200::read: its position
    tpl_result,     \* DataRepresentationTemplate5_200::read: what it returned, "None" while it runs
    pd_reader,      \* ProductDefinitionTemplate4_8::read: the bytes its reader holds
    pd_consumed,    \* ProductDefinitionTemplate4_8::read: bytes read from its reader so far
    pd,             \* ProductDefinitionTemplate4_8::read: the fields before time_ranges
    range_end,      \* ProductDefinitionTemplate4_8::read: the end of the range (0..n)
    time_ranges,    \* ProductDefinitionTemplate4_8::read: the records collected so far
    pd_pc,          \* ProductDefinitionTemplate4_8::read: its position
    pd_result       \* ProductDefinitionTemplate4_8::read: what it returned, "None" while it runs

\* state of read_next_message and its stream
rvars == <<pos, eof, pc, magic, edition, prev, sec, hdr, secStart, limit, cbRead, cbEof, cbCalls,
           calls, hdrs, lastCall, result, err, callStart, msgs, raw, template, input>>

\* state of read_data_7_200
dvars == <<payload, consumed, size, drs_template, lv, loop_p, run_length, loop_m, next, values,
           dpc, dresult, run_start, number_of_values>>

\* state of DataRepresentationTemplate5_200::read
tvars == <<tpl_reader, tpl_consumed, tpl, tpl_pc, tpl_result>>

\* state of ProductDefinitionTemplate4_8::read
pvars == <<pd_reader, pd_consumed, pd, range_end, time_ranges, pd_pc, pd_result>>

vars == <<rvars, dvars, tvars, pvars>>

----------------------------------------------------------------------------
(* Bounds of the model *)

\* longest stream: no byte exists at offset MaxStream or beyond
MaxStream == 130
\* longest stream of well-formed messages
MaxWellFormedStream == 180
\* the caller's loop stops after this many decoded messages
MaxMessages == 3
\* length of the longest stream of the runs that check termination
MaxShortStream == 100
MaxShortPayload == 4
\* longest body of a section whose body lies inside the stream
MaxBody == 2
\* a callback makes at most this many read calls on its sub-reader
MaxCallbackReads == 3
\* size of the buffer of a callback's large read
BigRead == 512
\* longest payload handed to read_data_7_200, and largest size passed to it
MaxPayload == 6
\* longest body handed to DataRepresentationTemplate5_200::read
MaxTemplateBytes == 10
\* most time ranges a body handed to ProductDefinitionTemplate4_8::read holds
MaxTimeRanges == 2

(* Byte sets the stream's bytes are drawn from *)

\* bytes of the 4-byte magic
MagicBytes == {0, 66, 71, 73, 82}
\* the edition byte of the Indicator
EditionBytes == {0, 1, 2, 3}
\* the section number byte
NumberBytes == 0 .. 9
\* the two bytes of the template_number of sections 3, 4 and 5
\* (3.0, 3.1; 4.0, 4.8, 4.50011, 4.1; 5.200, 5.0)
TemplateBytes(s) ==
    CASE s = 3 -> {<<0, 0>>, <<0, 1>>}
      [] s = 4 -> {<<0, 0>>, <<0, 8>>, <<195, 91>>, <<0, 1>>}
      [] s = 5 -> {<<0, 200>>, <<0, 0>>}
      [] OTHER -> {}

\* the stream is a concatenation of well-formed messages, each ended by the
\* "7777" sentinel, and the callbacks return Ok
WellFormed == input = "wellformed"

\* no byte exists at this offset or beyond
StreamBound ==
    IF WellFormed THEN MaxWellFormedStream
    ELSE IF input = "short" THEN MaxShortStream
    ELSE MaxStream

----------------------------------------------------------------------------
(* Primitive field reader: byteorder's read_u32 *)

\* u32 from four bytes in stream order, big-endian
BigEndianU32(b0, b1, b2, b3) == b0 * 16777216 + b1 * 65536 + b2 * 256 + b3

\* mutant: the magic compared in the wrong byte order
LittleEndianU32_AsBigEndian(b0, b1, b2, b3) == BigEndianU32(b0, b1, b2, b3)

\* u32 from four bytes in stream order, little-endian
LittleEndianU32(b0, b1, b2, b3) == b3 * 16777216 + b2 * 65536 + b1 * 256 + b0

\* u16 from two bytes in stream order, big-endian
BigEndianU16(b0, b1) == b0 * 256 + b1

\* the numbers of bytes a read of n bytes at offset p can obtain (a
\* well-formed stream does not end inside a message)
Avail(p, n) ==
    IF eof THEN {0}
    ELSE IF WellFormed THEN {k \in {n} : p + k <= StreamBound}
    ELSE {k \in 0 .. n : p + k <= StreamBound}

RECURSIVE SumSeq(_)
SumSeq(s) == IF s = <<>> THEN 0 ELSE Head(s) + SumSeq(Tail(s))

----------------------------------------------------------------------------
(* message.rs *)

\* b"GRIB" read as a little-endian u32
GRIB == 1112101447
\* b"GRIB" in stream order
GRIBBytes == <<71, 82, 73, 66>>

\* "7777" read as a big-endian u32
END_SECTION == 926365495

NoHeader == [section_length |-> 0, number_of_section |-> 0]
NoError == [kind |-> "", msg |-> "", expected |-> 0, actual |-> 0]

\* mutant: the 4-byte identifier is read again before reserved, discipline, edition
IndicatorFieldsToEdition_RereadsIdentifier == <<4, 2, 1, 1>>

\* widths of the fields IndicatorSectionHeader::read reads up to and including the edition
IndicatorFieldsToEdition == <<2, 1, 1>>
\* width of total_length, read after the edition check
IndicatorTotalLengthWidth == 8

\* mutant: edition 1 accepted as well
EditionOk_AcceptsEdition1(edition_number) == edition_number \in {1, 2}

\* the edition check of IndicatorSectionHeader::read
EditionOk(edition_number) == edition_number = 2

\* mutant: the sentinel is recognised wherever it stands
SectionHeader_is_end_Anywhere(buf, allow_end) == buf = END_SECTION

\* mutant: the section number is looked at without being consumed
SectionHeaderFields_NumberPeeked == <<4, 0>>

\* message.rs 48-56: widths of the u32 and of the u8 SectionHeader::read reads
SectionHeaderFields == <<4, 1>>

\* SectionHeader::read after its u32 has been read: is one more byte read?
SectionHeader_is_end(buf, allow_end) == allow_end /\ buf = END_SECTION

SectionHeader_read(buf, number, allow_end) ==
    IF SectionHeader_is_end(buf, allow_end)
    THEN [section_length |-> 4, number_of_section |-> 8]
    ELSE [section_length |-> buf, number_of_section |-> number]

\* mutant: the check always passes
ensure_section_number_AlwaysOk(header, number) == TRUE

\* ensure_section_number: TRUE iff it returns Ok
ensure_section_number(header, number) == header.number_of_section = number

\* mutant: the Identification section's template number is read whatever the length
FixedFields_TemplateAlways(s, section_length) ==
    CASE s = 1 -> <<2, 2, 1, 1, 1, 2, 1, 1, 1, 1, 1, 1, 1, 2>>
      [] s = 2 -> <<>>
      [] s = 3 -> <<1, 4, 1, 1, 2>>
      [] s = 4 -> <<2, 2>>
      [] s = 5 -> <<4, 2>>
      [] s = 6 -> <<1>>
      [] s = 7 -> <<>>

\* widths of the fixed fields each section's read() reads after the 5-byte header
FixedFields(s, section_length) ==
    CASE s = 1 -> <<2, 2, 1, 1, 1, 2, 1, 1, 1, 1, 1, 1, 1>>
                  \o (IF section_length = 21 THEN <<>> ELSE <<2>>)
      [] s = 2 -> <<>>
      [] s = 3 -> <<1, 4, 1, 1, 2>>
      [] s = 4 -> <<2, 2>>
      [] s = 5 -> <<4, 2>>
      [] s = 6 -> <<1>>
      [] s = 7 -> <<>>

\* the number each body_len() subtracts from section_length
Overhead(s, section_length) ==
    CASE s = 1 -> IF section_length = 21 THEN 21 ELSE 23
      [] s = 2 -> 5
      [] s = 3 -> 14
      [] s = 4 -> 9
      [] s = 5 -> 11
      [] s = 6 -> 5 + 1
      [] s = 7 -> 5

\* the u32 subtraction of body_len() overflows
BodyLenUnderflows(s, section_length) ==
    section_length >= 0 /\ section_length < Overhead(s, section_length)

\* mutant: the 5 bytes of the section header are not subtracted
body_len_HeaderNotCounted(s, section_length) ==
    section_length - Overhead(s, section_length) + 5

\* body_len() where it returns: section_length - overhead in wrapping u32 arithmetic
body_len(s, section_length) ==
    IF s = 1 /\ section_length = 21 THEN 0
    ELSE section_length - Overhead(s, section_length)

\* The 4-byte lengths a stream carries in front of section number `number`:
\* one short of the fixed fields up to MaxBody bytes of body (for section 1
\* also the 21-byte form and the lengths between), "7777", and 256 (a body
\* longer than the stream)
LengthBytes(number) ==
    LET lo == IF number = 1 THEN 20
              ELSE IF number \in 2 .. 7 THEN Overhead(number, 0) - 1 ELSE 4
        hi == IF number \in 1 .. 7 THEN Overhead(number, 0) + MaxBody ELSE 5
    IN {<<0, 0, 0, l>> : l \in lo .. hi} \cup {<<55, 55, 55, 55>>, <<0, 0, 1, 0>>}

\* the section numbers that may follow section s in a well-formed message
\* (8: the End section)
WellFormedNumbers(s) ==
    CASE s = 0 -> {1}
      [] s = 1 -> {2, 3}
      [] s = 2 -> {3}
      [] s = 7 -> {2, 3, 4, 8}
      [] OTHER -> {s + 1}

\* the 4-byte lengths of a well-formed section: the fixed fields and up to
\* MaxBody bytes of body; the End section is the sentinel
WellFormedLengthBytes(number) ==
    IF number = 8 THEN {<<55, 55, 55, 55>>}
    ELSE {<<0, 0, 0, l>> : l \in Overhead(number, 0) .. Overhead(number, 0) + MaxBody}
         \cup (IF number = 1 THEN {<<0, 0, 0, 21>>} ELSE {})

\* the section number bytes and length bytes drawn after section s
Numbers(s) == IF WellFormed THEN WellFormedNumbers(s) ELSE NumberBytes
Lengths(number) == IF WellFormed THEN WellFormedLengthBytes(number) ELSE LengthBytes(number)

----------------------------------------------------------------------------
(* reader.rs: read_next_message *)

\* mutant: end of stream at the magic reported as an error
MagicOutcome_EofIsError(got, b0, b1, b2, b3) ==
    IF got = 4 /\ LittleEndianU32(b0, b1, b2, b3) = GRIB THEN "continue"
    ELSE "Err"

\* outcome of the match on the first read_u32 (got = bytes obtained)
MagicOutcome(got, b0, b1, b2, b3) ==
    IF got < 4 THEN "OkNone"
    ELSE IF LittleEndianU32(b0, b1, b2, b3) = GRIB THEN "continue"
    ELSE "Err"

\* mutant: every SectionHeader::read is called with allow_end = true
AllowEnd_Everywhere(s) == TRUE

\* allow_end of the SectionHeader::read that follows section s
AllowEnd(s) == s = 7

\* mutant: a Data Representation section accepted right after a Data section
AfterData_Accepts5(number) ==
    CASE number = 2 -> "2"
      [] number = 3 -> "3"
      [] number = 4 -> "4"
      [] number = 5 -> "5"
      [] number = 8 -> "done"
      [] OTHER -> "invalid"

\* mutant: an unknown section number ends the message
AfterData_UnknownEnds(number) ==
    CASE number = 2 -> "2"
      [] number = 3 -> "3"
      [] number = 4 -> "4"
      [] OTHER -> "done"

\* mutant: a section 4 after a Data section ends the message
AfterData_Stops4(number) ==
    CASE number = 2 -> "2"
      [] number = 3 -> "3"
      [] OTHER -> IF number \in {4, 8} THEN "done" ELSE "invalid"

\* the match on the number of the header read after a Data section
\* ("done" = break 'outer, "invalid" = invalid section number)
AfterData(number) ==
    CASE number = 2 -> "2"
      [] number = 3 -> "3"
      [] number = 4 -> "4"
      [] number = 8 -> "done"
      [] OTHER -> "invalid"

\* mutant: a Product Definition section is read right after a Local Use section
NextSection_LocalUseThenProduct(s, number) ==
    CASE s = 0 -> "1"
      [] s = 1 -> IF number = 2 THEN "2" ELSE "3"
      [] s = 2 -> "4"
      [] s = 3 -> "4"
      [] s = 4 -> "5"
      [] s = 5 -> "6"
      [] s = 6 -> "7"
      [] s = 7 -> AfterData(number)

\* mutant: a Local Use section may follow a Local Use section
NextSection_LocalUseRepeats(s, number) ==
    CASE s = 0 -> "1"
      [] s = 1 -> IF number = 2 THEN "2" ELSE "3"
      [] s = 2 -> IF number = 2 THEN "2" ELSE "3"
      [] s = 3 -> "4"
      [] s = 4 -> "5"
      [] s = 5 -> "6"
      [] s = 6 -> "7"
      [] s = 7 -> AfterData(number)

\* The section reader run on the header read after section s
NextSection(s, number) ==
    CASE s = 0 -> "1"
      [] s = 1 -> IF number = 2 THEN "2" ELSE "3"
      [] s = 2 -> "3"
      [] s = 3 -> "4"
      [] s = 4 -> "5"
      [] s = 5 -> "6"
      [] s = 6 -> "7"
      [] s = 7 -> AfterData(number)

SecOf(name) == CASE name = "1" -> 1 [] name = "2" -> 2 [] name = "3" -> 3
                 [] name = "4" -> 4 [] name = "5" -> 5 [] name = "6" -> 6
                 [] name = "7" -> 7

\* std::io::Take::read: the bytes a read with a buffer of n bytes may obtain
\* when the Take's remaining limit is lim (lim < 0 stands for 2^32 + lim)
TakeGrant(lim, n) == IF lim < 0 \/ lim > n THEN n ELSE lim

\* mutant: nothing is discarded after the callback
DrainTarget_NoDrain(p, lim) == p

\* offset reached by std::io::copy(&mut take, &mut sink()) when the stream
\* holds the bytes: everything the Take still lets through is discarded
DrainTarget(p, lim) == p + lim

ZeroCalls == [s \in 0 .. 7 |-> 0]
ZeroHdrs == [n \in NumberBytes |-> 0]

\* mutant: a failure is reported as a decoded message
Return_ErrAsOk(r, e) ==
    /\ pc' = "done"
    /\ result' = (IF r = "Err" THEN "OkSome" ELSE r)
    /\ err' = e

\* `return`, and `?` on an Err
Return(r, e) ==
    /\ pc' = "done"
    /\ result' = r
    /\ err' = e

IOError == [kind |-> "IO", msg |-> "UnexpectedEof", expected |-> 0, actual |-> 0]
InvalidData(m, x, a) == [kind |-> "InvalidData", msg |-> m, expected |-> x, actual |-> a]

----------------------------------------------------------------------------
(* templates/data.rs: read_data_7_200 *)

\* a u32 as two 16-bit halves, value hi * 65536 + lo
U32(n) == [hi |-> n \div 65536, lo |-> n % 65536]

\* u32 * k for a k below 256: the product modulo 2^32, and whether it overflows
U32Mul(x, k) ==
    LET lo == x.lo * k
        hi == x.hi * k + lo \div 65536
    IN [hi |-> hi % 65536, lo |-> lo % 65536]
U32MulOverflows(x, k) == x.hi * k + (x.lo * k) \div 65536 >= 65536

\* u32 + u32: the sum modulo 2^32, and whether it overflows
U32Add(x, y) ==
    LET lo == x.lo + y.lo
        hi == x.hi + y.hi + lo \div 65536
    IN [hi |-> hi % 65536, lo |-> lo % 65536]
U32AddOverflows(x, y) == x.hi + y.hi + (x.lo + y.lo) \div 65536 >= 65536

\* Option<u16>
None == [some |-> FALSE, v |-> 0]
Some(x) == [some |-> TRUE, v |-> x]

\* the bytes of the data section's payload
DataBytes == {0, 1, 2, 255}
\* the payloads the reader handed to read_data_7_200 may hold
Payloads == UNION {[1 .. n -> DataBytes] : n \in 0 .. MaxPayload}
\* the sizes passed with a payload: its length, one less, one more
Sizes(bytes) == {n \in 0 .. MaxPayload : n - Len(bytes) \in -1 .. 1}
\* the DataRepresentationTemplate5_200 values passed
\* (templates/data_representation.rs 11-17, 31-35: mvl entries in the table)
Templates ==
    {[number_of_bits |-> 8, mv |-> v, mvl |-> Len(t), mvl_scaled_representative_values |-> t] :
        v \in {0, 1, 2}, t \in {<<10>>, <<10, 20>>}}
    \cup {[number_of_bits |-> 16, mv |-> 1, mvl |-> 1, mvl_scaled_representative_values |-> <<10>>]}
NoTemplate == [number_of_bits |-> 0, mv |-> 0, mvl |-> 0, mvl_scaled_representative_values |-> <<>>]

\* mutant: every bit width is decoded
BitsSupported_Any(number_of_bits) == TRUE

\* data.rs 15: the bit width the decoder supports
BitsSupported(number_of_bits) == number_of_bits = 8

\* mutant: the inner loop does not look at the size
InnerLoopContinues_Unbounded(p, n) == TRUE

\* data.rs 31: the test `p < size` of the inner loop
InnerLoopContinues(p, n) == p < n

\* data.rs 33: the byte continues the run
IsContinuation(b, mv) == b > mv

\* mutant: the continuation byte's digit counts from mv, not from mv + 1
ContinuationDigit_FromMv(b, mv) == b - mv

\* data.rs 34: next as u16 - drs_template.mv - 1, the digit a continuation byte stands for
ContinuationDigit(b, mv) == b - mv - 1

\* mutant: the digits are in base 256 - mv
ContinuationBase_OneMore(mv) == 256 - mv

\* data.rs 35: 255 - drs_template.mv, the base of the digits
ContinuationBase(mv) == 255 - mv

\* data.rs 43: the index (lv - 1) as usize is inside the table
IndexInBounds(level, table) == level - 1 < Len(table)

\* mutant: the value is the level's number, not the table's entry
LevelValue_LevelNumber(level, table) == IF level = 0 THEN None ELSE Some(level - 1)

\* data.rs 41-45: the value pushed for level lv (lv - 1 inside the table)
LevelValue(level, table) == IF level = 0 THEN None ELSE Some(table[level])

\* values after `for _ in 0..run_length { values.push(value) }`: the vector
\* is kept as the sequence of the runs pushed
PushRun(vs, value, count) == Append(vs, [value |-> value, count |-> count])

\* the values of drs.number_of_values: 0 and 2^31
ValueCounts == {U32(0), [hi |-> 32768, lo |-> 0]}

\* data.rs 22: what Vec::<Option<u16>>::with_capacity(n as usize) can do.
\* An element takes 4 bytes; from n = 2^29 on the 4n bytes exceed isize::MAX
\* where usize has 32 bits, and with_capacity panics there ("capacity
\* overflow"); where usize has 64 bits the vector is allocated
WithCapacityOutcomes(n) ==
    IF n.hi >= 8192 THEN {"Ok", "PanicCapacityOverflow"} ELSE {"Ok"}

\* read_data_7_200 is not running
DataIdle ==
    /\ payload = <<>>
    /\ consumed = 0
    /\ size = 0
    /\ drs_template = NoTemplate
    /\ lv = 0
    /\ loop_p = 0
    /\ run_length = U32(0)
    /\ loop_m = U32(0)
    /\ next = 0
    /\ values = <<>>
    /\ dpc = "idle"
    /\ dresult = "None"
    /\ run_start = 0
    /\ number_of_values = U32(0)

----------------------------------------------------------------------------
(* templates/data_representation.rs: DataRepresentationTemplate5_200::read *)

\* the bytes of the Data Representation section's body
TableBytes == {0, 1, 2}
\* the bodies the bounded sub-reader handed to read may hold
TemplateReaders == UNION {[1 .. n -> TableBytes] : n \in 0 .. MaxTemplateBytes}

\* widths of number_of_bits, mv, mvl, decimal_scale_factor
Template5_200Fields == <<1, 2, 2, 1>>

\* the struct before any field is read
EmptyTemplate5_200 ==
    [number_of_bits |-> 0, mv |-> 0, mvl |-> 0, decimal_scale_factor |-> 0,
     mvl_scaled_representative_values |-> <<>>]

\* mutant: the table is read up to mv entries
EntriesToRead_Mv(t) == t.mv

\* data_representation.rs 31: the number of turns of `for _ in 0..template.mvl`
EntriesToRead(t) == t.mvl

\* the offset a failed sequence of reads of these widths may leave a reader
\* of len bytes at: the fields that fit are consumed, and any part of the
\* bytes left over
RECURSIVE FailedReadOffsets(_, _, _)
FailedReadOffsets(widths, at, len) ==
    IF widths # <<>> /\ at + Head(widths) <= len
    THEN FailedReadOffsets(Tail(widths), at + Head(widths), len)
    ELSE at .. len

\* DataRepresentationTemplate5_200::read is not running
TemplateIdle ==
    /\ tpl_reader = <<>>
    /\ tpl_consumed = 0
    /\ tpl = EmptyTemplate5_200
    /\ tpl_pc = "idle"
    /\ tpl_result = "None"

----------------------------------------------------------------------------
(* templates/product_definition.rs: ProductDefinitionTemplate4_8::read *)

\* widths of the fields of ProductDefinitionTemplate4_8 before time_ranges,
\* in the order they are read (parameter_category .. second)
Template4_8Fields ==
    <<1, 1, 1, 1, 1, 2, 1, 1, 4, 1, 1, 4, 1, 1, 4, 2, 1, 1, 1, 1, 1>>

Template4_8Names ==
    <<"parameter_category", "parameter_number", "type_of_generating_process",
      "background_generating_process_identifier",
      "analysis_or_forecast_generating_process_identifier",
      "hours_of_observational_data_cutoff", "minutes_of_observational_data_cutoff",
      "indicator_of_unit_of_time_range", "forecast_time",
      "type_of_first_fixed_surface", "scale_factor_of_first_fixed_surface",
      "scaled_value_of_first_fixed_surface", "type_of_second_fixed_surface",
      "scale_factor_of_second_fixed_surface", "scaled_value_of_second_fixed_surface",
      "year", "month", "day", "hour", "minute", "second">>

\* width of the count read by (0..reader.read_u8()?)
TimeRangeCountWidth == <<1>>

\* widths of the fields of ProductDefinitionTemplate8TimeRange, in the order they are read
TimeRangeFields == <<4, 1, 1, 1, 4, 1, 4>>

TimeRangeNames ==
    <<"total_number_of_data_values_missing", "statistical_process",
      "type_of_time_increment", "indicator_of_unit_of_time",
      "length_of_the_time_range", "indicator_of_unit_of_length_of_time_range",
      "time_increment">>

\* byteorder's read_u8 / read_u16::<BigEndian> / read_u32::<BigEndian> at offset `at`
ReadBigEndian(bytes, at, width) ==
    CASE width = 1 -> bytes[at + 1]
      [] width = 2 -> BigEndianU16(bytes[at + 1], bytes[at + 2])
      [] width = 4 -> BigEndianU32(bytes[at + 1], bytes[at + 2], bytes[at + 3], bytes[at + 4])

\* the values of fields of these widths read one after the other from offset `at`
RECURSIVE ReadFields(_, _, _)
ReadFields(bytes, at, widths) ==
    IF widths = <<>> THEN <<>>
    ELSE <<ReadBigEndian(bytes, at, Head(widths))>>
         \o ReadFields(bytes, at + Head(widths), Tail(widths))

\* the struct whose fields, in the order of names, hold these values
StructOf(names, fieldValues) ==
    [f \in {names[i] : i \in 1 .. Len(names)} |->
        fieldValues[CHOOSE i \in 1 .. Len(names) : names[i] = f]]

\* the bytes of a template 4.8 up to the count, and of one time range
Template4_8Bytes(v) == [i \in 1 .. SumSeq(Template4_8Fields) |-> (i * v) % 50]
TimeRangeBytes(t) == [i \in 1 .. SumSeq(TimeRangeFields) |-> (16 * t + i) % 100]

RECURSIVE Flatten(_)
Flatten(ss) == IF ss = <<>> THEN <<>> ELSE Head(ss) \o Flatten(Tail(ss))

\* the count bytes a body may carry
TimeRangeCounts == (0 .. MaxTimeRanges + 1) \cup {255}

\* the bodies the bounded sub-reader handed to read may hold: the fixed
\* fields, a count and up to MaxTimeRanges time ranges, cut anywhere
ProductReaders ==
    LET tags == UNION {[1 .. m -> {1, 2}] : m \in 0 .. MaxTimeRanges}
        full == {Template4_8Bytes(v) \o <<n>>
                    \o Flatten([i \in 1 .. Len(ts) |-> TimeRangeBytes(ts[i])]) :
                    v \in {1, 2}, n \in TimeRangeCounts, ts \in tags}
    IN UNION {{SubSeq(b, 1, l) : l \in 0 .. Len(b)} : b \in full}

\* mutant: the range of the records is 0..=n
TimeRangesToRead_Inclusive(n) == n + 1

\* product_definition.rs 104: the number of items of the range (0..n)
TimeRangesToRead(n) == n

\* the struct before any field is read
NoTemplate4_8 == StructOf(Template4_8Names, [i \in 1 .. Len(Template4_8Names) |-> 0])

\* ProductDefinitionTemplate4_8::read is not running
ProductIdle ==
    /\ pd_reader = <<>>
    /\ pd_consumed = 0
    /\ pd = NoTemplate4_8
    /\ range_end = 0
    /\ time_ranges = <<>>
    /\ pd_pc = "idle"
    /\ pd_result = "None"

----------------------------------------------------------------------------
(* reader.rs: the calls of read_next_message *)

\* the state of the reader before the first call
ReaderInit ==
    /\ pos = 0
    /\ eof = FALSE
    /\ pc = "start"
    /\ magic = <<>>
    /\ edition = -1
    /\ prev = 0
    /\ sec = 0
    /\ hdr = NoHeader
    /\ secStart = 0
    /\ limit = 0
    /\ cbRead = 0
    /\ cbEof = FALSE
    /\ cbCalls = 0
    /\ calls = ZeroCalls
    /\ hdrs = ZeroHdrs
    /\ lastCall = -1
    /\ result = "None"
    /\ err = NoError
    /\ callStart = 0
    /\ msgs = 0
    /\ raw = <<>>
    /\ template = -1

Init ==
    /\ ReaderInit
    /\ input = "any"
    /\ DataIdle
    /\ TemplateIdle
    /\ ProductIdle

\* reader.rs 78-87: the magic
ReadMagic ==
    /\ pc = "start"
    /\ \E got \in Avail(pos, 4) \cup {0} :
       \E b0 \in MagicBytes, b1 \in MagicBytes, b2 \in MagicBytes, b3 \in MagicBytes :
         LET out == MagicOutcome(got, b0, b1, b2, b3) IN
         /\ WellFormed => <<b0, b1, b2, b3>> = GRIBBytes
         /\ pos' = pos + got
         /\ eof' = (eof \/ got < 4)
         /\ magic' = SubSeq(<<b0, b1, b2, b3>>, 1, got)
         /\ CASE out = "OkNone" -> Return("OkNone", NoError)
              [] out = "continue" -> pc' = "indicator" /\ UNCHANGED <<result, err>>
              [] OTHER -> Return("Err", InvalidData("message identifier must be 'GRIB'", 0, 0))
    /\ UNCHANGED <<edition, prev, sec, hdr, secStart, limit, cbRead, cbEof, cbCalls,
                   calls, hdrs, lastCall, callStart, msgs, raw, template, input>>
    /\ UNCHANGED <<dvars, tvars, pvars>>

\* reader.rs 90-91, message.rs 19-36: IndicatorSection::read, then handle_indicator is entered
ReadIndicator ==
    /\ pc = "indicator"
    /\ LET n1 == SumSeq(IndicatorFieldsToEdition) IN
       \E got \in Avail(pos, n1) :
         IF got < n1
         THEN /\ pos' = pos + got /\ eof' = TRUE
              /\ Return("Err", IOError)
              /\ UNCHANGED <<edition, calls, lastCall>>
         ELSE \E edition_number \in EditionBytes :
              /\ WellFormed => edition_number = 2
              /\ edition' = edition_number
              /\ IF ~EditionOk(edition_number)
                 THEN /\ pos' = pos + n1 /\ eof' = eof
                      /\ Return("Err", InvalidData("edition number must be 2", 2, edition_number))
                      /\ UNCHANGED <<calls, lastCall>>
                 ELSE \E got2 \in Avail(pos + n1, IndicatorTotalLengthWidth) :
                      IF got2 < IndicatorTotalLengthWidth
                      THEN /\ pos' = pos + n1 + got2 /\ eof' = TRUE
                           /\ Return("Err", IOError)
                           /\ UNCHANGED <<calls, lastCall>>
                      ELSE /\ pos' = pos + n1 + got2 /\ eof' = eof
                           /\ pc' = "callback"
                           /\ calls' = [calls EXCEPT ![0] = @ + 1]
                           /\ lastCall' = 0
                           /\ UNCHANGED <<result, err>>
    /\ sec' = 0 /\ limit' = 0 /\ cbRead' = 0 /\ cbEof' = FALSE /\ cbCalls' = 0
    /\ UNCHANGED <<magic, prev, hdr, secStart, hdrs, callStart, msgs, raw, template, input>>
    /\ UNCHANGED <<dvars, tvars, pvars>>

\* A section header h, whose u32 was read from the bytes b, has been read
\* after section sec and the stream is at offset p: reader.rs 94, 101-105,
\* 113, 124, 137, 145, 153, 161-167
AcceptHeader(h, b, p) ==
    LET nxt == NextSection(sec, h.number_of_section) IN
    /\ hdr' = h
    /\ raw' = b
    /\ template' = -1
    /\ prev' = sec
    /\ secStart' = pos
    /\ pos' = p
    /\ hdrs' = [hdrs EXCEPT ![h.number_of_section] = @ + 1]
    /\ CASE nxt = "done" ->
              /\ Return("OkSome", NoError)
              /\ msgs' = msgs + 1
              /\ sec' = sec
         [] nxt = "invalid" ->
              /\ Return("Err", InvalidData("invalid section number", 0, h.number_of_section))
              /\ UNCHANGED <<msgs, sec>>
         [] OTHER ->
              /\ pc' = "section"
              /\ sec' = SecOf(nxt)
              /\ UNCHANGED <<result, err, msgs>>

\* message.rs 47-61: SectionHeader::read(reader, allow_end), and the branch
\* read_next_message takes on its number
ReadSectionHeader ==
    /\ pc = "header"
    /\ \E got \in Avail(pos, SectionHeaderFields[1]) :
         IF got < SectionHeaderFields[1]
         THEN /\ pos' = pos + got /\ eof' = TRUE
              /\ Return("Err", IOError)
              /\ UNCHANGED <<hdr, prev, secStart, hdrs, msgs, sec, raw, template>>
         ELSE \E number \in Numbers(sec) : \E b \in Lengths(number) :
              LET buf == BigEndianU32(b[1], b[2], b[3], b[4]) IN
              IF SectionHeader_is_end(buf, AllowEnd(sec))
              THEN /\ AcceptHeader(SectionHeader_read(buf, 0, AllowEnd(sec)), b,
                                   pos + SectionHeaderFields[1])
                   /\ eof' = eof
              ELSE \E got1 \in Avail(pos + SectionHeaderFields[1], SectionHeaderFields[2]) :
                   IF got1 < SectionHeaderFields[2]
                   THEN /\ pos' = pos + SectionHeaderFields[1] /\ eof' = TRUE
                        /\ Return("Err", IOError)
                        /\ UNCHANGED <<hdr, prev, secStart, hdrs, msgs, sec, raw, template>>
                   ELSE /\ AcceptHeader(SectionHeader_read(buf, number, AllowEnd(sec)), b,
                                        pos + SumSeq(SectionHeaderFields))
                        /\ eof' = eof
    /\ UNCHANGED <<magic, edition, limit, cbRead, cbEof, cbCalls, calls, lastCall, callStart,
                   input>>
    /\ UNCHANGED <<dvars, tvars, pvars>>

\* The section's read() (message.rs 96-118, 136-144, 164-174, 191-198,
\* 215-225, 241-247, 262-267), reader.take(body length), and the entry into
\* the section's callback
ReadSection ==
    /\ pc = "section"
    /\ IF ~ensure_section_number(hdr, sec)
       THEN /\ Return("Err", InvalidData("number of section must be", sec, hdr.number_of_section))
            /\ UNCHANGED <<pos, eof, limit, calls, lastCall, template>>
       ELSE LET n == SumSeq(FixedFields(sec, hdr.section_length)) IN
            \E got \in Avail(pos, n) :
              IF got < n
              THEN /\ pos' = pos + got /\ eof' = TRUE
                   /\ Return("Err", IOError)
                   /\ UNCHANGED <<limit, calls, lastCall, template>>
              ELSE /\ pos' = pos + n /\ eof' = eof
                   /\ IF sec \in 3 .. 5
                      THEN \E t \in TemplateBytes(sec) : template' = BigEndianU16(t[1], t[2])
                      ELSE template' = template
                   /\ \/ \* a build with overflow checks: the subtraction panics
                         /\ BodyLenUnderflows(sec, hdr.section_length)
                         /\ Return("Panic", NoError)
                         /\ UNCHANGED <<limit, calls, lastCall>>
                      \/ \* the subtraction does not overflow, or the build
                         \* has no overflow checks and it wraps
                         /\ limit' = body_len(sec, hdr.section_length)
                         /\ pc' = "callback"
                         /\ calls' = [calls EXCEPT ![sec] = @ + 1]
                         /\ lastCall' = sec
                         /\ UNCHANGED <<result, err>>
    /\ cbRead' = 0 /\ cbEof' = FALSE /\ cbCalls' = 0
    /\ UNCHANGED <<magic, edition, prev, sec, hdr, secStart, hdrs, callStart, msgs, raw, input>>
    /\ UNCHANGED <<dvars, tvars, pvars>>

\* The callback calls read() on its sub-reader (std::io::Take) with a buffer
\* of n bytes: the Take hands over at most its remaining limit
CallbackRead ==
    /\ pc = "callback"
    /\ sec >= 1
    /\ cbCalls < MaxCallbackReads
    /\ \E n \in {1, BigRead} :
       LET want == TakeGrant(limit, n) IN
       \E got \in Avail(pos, want) :
         /\ pos' = pos + got
         /\ limit' = limit - got
         /\ cbRead' = cbRead + got
         /\ eof' = (eof \/ got < want)
         /\ cbEof' = (cbEof \/ got = 0)
    /\ cbCalls' = cbCalls + 1
    /\ UNCHANGED <<pc, magic, edition, prev, sec, hdr, secStart, calls, hdrs, lastCall,
                   result, err, callStart, msgs, raw, template, input>>
    /\ UNCHANGED <<dvars, tvars, pvars>>

\* The callback returns Ok(()), as the default handlers do (reader.rs 9-75),
\* or an Err, which `?` passes on (reader.rs 91, 97, 109, 120, 131, 140, 148,
\* 156)
CallbackReturn ==
    /\ pc = "callback"
    /\ \/ /\ pc' = IF sec = 0 THEN "header" ELSE "drain"
          /\ UNCHANGED <<result, err>>
       \/ /\ ~WellFormed
          /\ \E kind \in {"IO", "InvalidData"} :
               Return("Err", [kind |-> kind, msg |-> "callback", expected |-> 0, actual |-> 0])
    /\ template' = -1
    /\ UNCHANGED <<pos, eof, magic, edition, prev, sec, hdr, secStart, limit, cbRead,
                   cbEof, cbCalls, calls, hdrs, lastCall, callStart, msgs, raw, input>>
    /\ UNCHANGED <<dvars, tvars, pvars>>

\* std::io::copy(&mut reader, &mut std::io::sink())? on the Take (reader.rs
\* 98, 110, 121, 132, 141, 149, 157): stops when the Take is used up or the
\* stream ends
Drain ==
    /\ pc = "drain"
    /\ \/ /\ limit >= 0
          /\ pos + limit <= StreamBound
          /\ ~eof \/ limit = 0
          /\ pos' = DrainTarget(pos, limit)
          /\ eof' = eof
       \/ /\ ~WellFormed
          /\ \E p \in pos .. StreamBound :
             /\ limit < 0 \/ p < pos + limit
             /\ eof => p = pos
             /\ pos' = p
             /\ eof' = TRUE
    /\ pc' = "header"
    /\ limit' = 0
    /\ UNCHANGED <<magic, edition, prev, sec, hdr, secStart, cbRead, cbEof, cbCalls,
                   calls, hdrs, lastCall, result, err, callStart, msgs, raw, template, input>>
    /\ UNCHANGED <<dvars, tvars, pvars>>

\* The caller's loop (examples/grid_squares.rs 180): another call after Ok(Some(()))
NextCall ==
    /\ pc = "done"
    /\ result = "OkSome"
    /\ msgs < MaxMessages
    /\ pc' = "start"
    /\ result' = "None"
    /\ err' = NoError
    /\ magic' = <<>>
    /\ edition' = -1
    /\ prev' = 0
    /\ sec' = 0
    /\ hdr' = NoHeader
    /\ secStart' = pos
    /\ limit' = 0
    /\ cbRead' = 0
    /\ cbEof' = FALSE
    /\ cbCalls' = 0
    /\ calls' = ZeroCalls
    /\ hdrs' = ZeroHdrs
    /\ lastCall' = -1
    /\ callStart' = pos
    /\ raw' = <<>>
    /\ template' = -1
    /\ UNCHANGED <<pos, eof, msgs, input>>
    /\ UNCHANGED <<dvars, tvars, pvars>>

Next ==
    \/ ReadMagic
    \/ ReadIndicator
    \/ ReadSectionHeader
    \/ ReadSection
    \/ CallbackRead
    \/ CallbackReturn
    \/ Drain
    \/ NextCall

Spec == Init /\ [][Next]_vars

\* the steps of a running read_next_message call and of the callbacks it invokes
CallStep ==
    \/ ReadMagic
    \/ ReadIndicator
    \/ ReadSectionHeader
    \/ ReadSection
    \/ CallbackRead
    \/ CallbackReturn
    \/ Drain

\* the reader on any stream of at most MaxShortStream bytes
InitShort ==
    /\ ReaderInit
    /\ input = "short"
    /\ DataIdle
    /\ TemplateIdle
    /\ ProductIdle

\* the reader on streams of up to MaxShortStream bytes
SpecShort == InitShort /\ [][Next]_vars

\* the reader when a call that has started keeps running: the thread is not
\* stopped, reads of the stream return, and callbacks return
SpecFair == InitShort /\ [][Next]_vars /\ WF_vars(CallStep)

\* the reader on streams of well-formed messages
InitWellFormed ==
    /\ ReaderInit
    /\ input = "wellformed"
    /\ DataIdle
    /\ TemplateIdle
    /\ ProductIdle

SpecWellFormed == InitWellFormed /\ [][Next]_vars

----------------------------------------------------------------------------
(* templates/data.rs: read_data_7_200(reader, size, drs, drs_template) *)

\* a call of read_data_7_200 on a reader holding payload
InitData ==
    /\ ReaderInit
    /\ input = "any"
    /\ payload \in Payloads
    /\ size \in Sizes(payload)
    /\ drs_template \in Templates
    /\ consumed = 0
    /\ lv = 0
    /\ loop_p = 0
    /\ run_length = U32(0)
    /\ loop_m = U32(0)
    /\ next = 0
    /\ values = <<>>
    /\ dpc = "entry"
    /\ dresult = "None"
    /\ run_start = 0
    /\ number_of_values \in ValueCounts
    /\ TemplateIdle
    /\ ProductIdle

DataReturn(r) ==
    /\ dpc' = "done"
    /\ dresult' = r

\* data.rs 15-25: the bit-width check, the first read_u8, p = 0
DataEntry ==
    /\ dpc = "entry"
    /\ IF ~BitsSupported(drs_template.number_of_bits)
       THEN /\ DataReturn("ErrUnsupportedData")
            /\ UNCHANGED <<consumed, lv>>
       ELSE \E allocated \in WithCapacityOutcomes(number_of_values) :
            IF allocated # "Ok"
            THEN /\ DataReturn(allocated)
                 /\ UNCHANGED <<consumed, lv>>
            ELSE IF consumed < Len(payload)
            THEN /\ lv' = payload[consumed + 1]
                 /\ consumed' = consumed + 1
                 /\ dpc' = "outer"
                 /\ UNCHANGED dresult
            ELSE /\ DataReturn("ErrIO")
                 /\ UNCHANGED <<consumed, lv>>
    /\ UNCHANGED <<payload, size, drs_template, number_of_values, loop_p, run_length, loop_m, next, values,
                   run_start>>
    /\ UNCHANGED <<rvars, tvars, pvars>>

\* data.rs 26-30 and 52: the test of the outer loop, the start of a run
DataOuter ==
    /\ dpc = "outer"
    /\ IF loop_p < size
       THEN /\ loop_p' = loop_p + 1
            /\ run_length' = U32(1)
            /\ loop_m' = U32(1)
            /\ next' = 0
            /\ run_start' = consumed
            /\ dpc' = "inner"
            /\ UNCHANGED dresult
       ELSE /\ DataReturn("Ok")
            /\ UNCHANGED <<loop_p, run_length, loop_m, next, run_start>>
    /\ UNCHANGED <<payload, size, drs_template, number_of_values, consumed, lv, values>>
    /\ UNCHANGED <<rvars, tvars, pvars>>

\* data.rs 31-40: one turn of the inner loop
DataInner ==
    /\ dpc = "inner"
    /\ IF InnerLoopContinues(loop_p, size)
       THEN IF consumed < Len(payload)
            THEN LET b == payload[consumed + 1]
                     mv == drs_template.mv
                 IN
                 /\ next' = b
                 /\ consumed' = consumed + 1
                 /\ IF IsContinuation(b, mv)
                    THEN LET add == U32Mul(loop_m, ContinuationDigit(b, mv))
                             overflows ==
                                 \/ U32MulOverflows(loop_m, ContinuationDigit(b, mv))
                                 \/ U32AddOverflows(run_length, add)
                                 \/ U32MulOverflows(loop_m, ContinuationBase(mv))
                         IN
                         \/ \* a build with overflow checks: the arithmetic panics
                            /\ overflows
                            /\ DataReturn("PanicOverflow")
                            /\ UNCHANGED <<run_length, loop_m, loop_p>>
                         \/ \* no overflow, or a build without overflow checks
                            /\ run_length' = U32Add(run_length, add)
                            /\ loop_m' = U32Mul(loop_m, ContinuationBase(mv))
                            /\ loop_p' = loop_p + 1
                            /\ UNCHANGED <<dpc, dresult>>
                    ELSE /\ dpc' = "emit"
                         /\ UNCHANGED <<run_length, loop_m, loop_p, dresult>>
            ELSE /\ DataReturn("ErrIO")
                 /\ UNCHANGED <<next, consumed, run_length, loop_m, loop_p>>
       ELSE /\ dpc' = "emit"
            /\ UNCHANGED <<next, consumed, run_length, loop_m, loop_p, dresult>>
    /\ UNCHANGED <<payload, size, drs_template, number_of_values, lv, values, run_start>>
    /\ UNCHANGED <<rvars, tvars, pvars>>

\* data.rs 41-50: the level's value, the pushes, lv = next
DataEmit ==
    /\ dpc = "emit"
    /\ LET table == drs_template.mvl_scaled_representative_values IN
       IF lv # 0 /\ ~IndexInBounds(lv, table)
       THEN /\ DataReturn("PanicIndexOutOfBounds")
            /\ UNCHANGED <<values, lv>>
       ELSE /\ values' = PushRun(values, LevelValue(lv, table), run_length)
            /\ lv' = next
            /\ dpc' = "outer"
            /\ UNCHANGED dresult
    /\ UNCHANGED <<payload, size, drs_template, number_of_values, consumed, loop_p, run_length,
                   loop_m, next,
                   run_start>>
    /\ UNCHANGED <<rvars, tvars, pvars>>

NextData ==
    \/ DataEntry
    \/ DataOuter
    \/ DataInner
    \/ DataEmit

SpecData == InitData /\ [][NextData]_vars

\* read_data_7_200 when a call that has started keeps running: the thread
\* is not stopped and reads of the reader return
InitDataShort ==
    /\ InitData
    /\ Len(payload) <= MaxShortPayload
    /\ size <= MaxShortPayload

SpecDataFair == InitDataShort /\ [][NextData]_vars /\ WF_vars(NextData)

----------------------------------------------------------------------------
(* templates/data_representation.rs: DataRepresentationTemplate5_200::read(reader) *)

\* a call of read on a sub-reader holding tpl_reader
InitTemplate ==
    /\ ReaderInit
    /\ input = "any"
    /\ DataIdle
    /\ ProductIdle
    /\ tpl_reader \in TemplateReaders
    /\ tpl_consumed = 0
    /\ tpl = EmptyTemplate5_200
    /\ tpl_pc = "fields"
    /\ tpl_result = "None"

\* data_representation.rs 21-27: the four scalar fields
TemplateReadFields ==
    /\ tpl_pc = "fields"
    /\ LET n == SumSeq(Template5_200Fields)
           r == tpl_reader
       IN
       IF Len(r) < n
       THEN /\ tpl_consumed' \in FailedReadOffsets(Template5_200Fields, 0, Len(r))
            /\ tpl_pc' = "done"
            /\ tpl_result' = "ErrIO"
            /\ UNCHANGED tpl
       ELSE /\ tpl_consumed' = n
            /\ tpl' = [number_of_bits |-> r[1],
                       mv |-> BigEndianU16(r[2], r[3]),
                       mvl |-> BigEndianU16(r[4], r[5]),
                       decimal_scale_factor |-> r[6],
                       mvl_scaled_representative_values |-> <<>>]
            /\ tpl_pc' = "table"
            /\ UNCHANGED tpl_result
    /\ UNCHANGED tpl_reader
    /\ UNCHANGED <<rvars, dvars, pvars>>

\* data_representation.rs 31-35: one turn of the loop over the table
TemplateReadEntry ==
    /\ tpl_pc = "table"
    /\ Len(tpl.mvl_scaled_representative_values) < EntriesToRead(tpl)
    /\ IF tpl_consumed + 2 <= Len(tpl_reader)
       THEN /\ tpl' = [tpl EXCEPT !.mvl_scaled_representative_values =
                          Append(@, BigEndianU16(tpl_reader[tpl_consumed + 1],
                                                 tpl_reader[tpl_consumed + 2]))]
            /\ tpl_consumed' = tpl_consumed + 2
            /\ UNCHANGED <<tpl_pc, tpl_result>>
       ELSE /\ tpl_consumed' \in tpl_consumed .. Len(tpl_reader)
            /\ tpl_pc' = "done"
            /\ tpl_result' = "ErrIO"
            /\ UNCHANGED tpl
    /\ UNCHANGED tpl_reader
    /\ UNCHANGED <<rvars, dvars, pvars>>

\* data_representation.rs 36: Ok(template)
TemplateReturn ==
    /\ tpl_pc = "table"
    /\ Len(tpl.mvl_scaled_representative_values) >= EntriesToRead(tpl)
    /\ tpl_pc' = "done"
    /\ tpl_result' = "Ok"
    /\ UNCHANGED <<tpl_reader, tpl_consumed, tpl>>
    /\ UNCHANGED <<rvars, dvars, pvars>>

NextTemplate ==
    \/ TemplateReadFields
    \/ TemplateReadEntry
    \/ TemplateReturn

SpecTemplate == InitTemplate /\ [][NextTemplate]_vars

----------------------------------------------------------------------------
(* templates/product_definition.rs: ProductDefinitionTemplate4_8::read(reader) *)

\* a call of read on a sub-reader holding pd_reader
InitProduct ==
    /\ ReaderInit
    /\ input = "any"
    /\ DataIdle
    /\ TemplateIdle
    /\ pd_reader \in ProductReaders
    /\ pd_consumed = 0
    /\ pd = NoTemplate4_8
    /\ range_end = 0
    /\ time_ranges = <<>>
    /\ pd_pc = "fields"
    /\ pd_result = "None"

\* product_definition.rs 83-104: the fields up to second, and the count of the range
ProductReadFields ==
    /\ pd_pc = "fields"
    /\ LET widths == Template4_8Fields \o TimeRangeCountWidth
           n == SumSeq(widths)
       IN
       IF Len(pd_reader) < n
       THEN /\ pd_consumed' \in FailedReadOffsets(widths, 0, Len(pd_reader))
            /\ pd_pc' = "done"
            /\ pd_result' = "ErrIO"
            /\ UNCHANGED <<pd, range_end>>
       ELSE /\ pd_consumed' = n
            /\ pd' = StructOf(Template4_8Names, ReadFields(pd_reader, 0, Template4_8Fields))
            /\ range_end' = TimeRangesToRead(ReadBigEndian(pd_reader, n - 1, 1))
            /\ pd_pc' = "ranges"
            /\ UNCHANGED pd_result
    /\ UNCHANGED <<pd_reader, time_ranges>>
    /\ UNCHANGED <<rvars, dvars, tvars>>

\* product_definition.rs 105-106, 123-133: one item of the range, one
\* ProductDefinitionTemplate8TimeRange::read
ProductReadTimeRange ==
    /\ pd_pc = "ranges"
    /\ Len(time_ranges) < range_end
    /\ LET n == SumSeq(TimeRangeFields) IN
       IF pd_consumed + n <= Len(pd_reader)
       THEN /\ time_ranges' =
                 Append(time_ranges,
                        StructOf(TimeRangeNames, ReadFields(pd_reader, pd_consumed, TimeRangeFields)))
            /\ pd_consumed' = pd_consumed + n
            /\ UNCHANGED <<pd_pc, pd_result>>
       ELSE /\ pd_consumed' \in FailedReadOffsets(TimeRangeFields, pd_consumed, Len(pd_reader))
            /\ pd_pc' = "done"
            /\ pd_result' = "ErrIO"
            /\ UNCHANGED time_ranges
    /\ UNCHANGED <<pd_reader, pd, range_end>>
    /\ UNCHANGED <<rvars, dvars, tvars>>

\* product_definition.rs 82, 106-107: the range is exhausted, Ok(Self { .. })
ProductReturn ==
    /\ pd_pc = "ranges"
    /\ Len(time_ranges) >= range_end
    /\ pd_pc' = "done"
    /\ pd_result' = "Ok"
    /\ UNCHANGED <<pd_reader, pd_consumed, pd, range_end, time_ranges>>
    /\ UNCHANGED <<rvars, dvars, tvars>>

NextProduct ==
    \/ ProductReadFields
    \/ ProductReadTimeRange
    \/ ProductReturn

SpecProduct == InitProduct /\ [][NextProduct]_vars

TypeOK ==
    /\ pos \in 0 .. StreamBound
    /\ pc \in {"start", "indicator", "header", "section", "callback", "drain", "done"}
    /\ sec \in 0 .. 7
    /\ result \in {"None", "OkNone", "OkSome", "Err", "Panic"}
    /\ (pc = "done") = (result # "None")
----------------------------------------------------------------------------
(* Properties *)

\* a section header has been read in this step
HeaderRead == hdrs' # hdrs /\ pc = "header"

\* the declared length covers the section's fixed fields
LengthCoversFixedFields(s, section_length) == ~BodyLenUnderflows(s, section_length)

\* C1: take/drain. After a section 1-7 whose declared section_length is at
\* least its fixed overhead, and whatever number of bytes its callback read
\* before returning Ok, the next section header that is read starts at the
\* section's start offset plus its section_length.
C1_TakeDrain ==
    [][(HeaderRead /\ sec >= 1 /\ LengthCoversFixedFields(sec, hdr.section_length))
          => secStart' = secStart + hdr.section_length]_vars

\* C1 witness: a callback left one of two body bytes unread and the drain
\* has put the stream at the section boundary
C1_Witness ==
    /\ pc = "header" /\ sec >= 1
    /\ body_len(sec, hdr.section_length) = 2
    /\ cbRead = 1
    /\ pos = secStart + hdr.section_length

\* C2: a callback never obtains a stream byte that lies beyond the end of its
\* section: every byte its sub-reader delivers is one of the
\* section_length - overhead body bytes.
C2_NoOverrun ==
    (pc = "callback" /\ sec >= 1 /\ cbRead > 0)
        => pos <= secStart + hdr.section_length

\* the callbacks that may follow one another (-1 = none yet, 0 = handle_indicator)
Follows ==
    {<<-1, 0>>, <<0, 1>>, <<1, 2>>, <<1, 3>>, <<2, 3>>, <<3, 4>>, <<4, 5>>,
     <<5, 6>>, <<6, 7>>, <<7, 2>>, <<7, 3>>, <<7, 4>>}

\* C3: section grammar. Callbacks are invoked in the order
\* indicator, 1, ([2] 3 (4 5 6 7)+)+, each for the section whose header was
\* just read and once per header read; Ok(Some(())) is returned only on a
\* header numbered 8 that follows a Data section, when every section read
\* had its callback invoked exactly once.
C3_SectionGrammar ==
    [][/\ (calls' # calls /\ pc \in {"indicator", "section"}) =>
            /\ <<lastCall, lastCall'>> \in Follows
            /\ lastCall' >= 1 =>
                 /\ hdr.number_of_section = lastCall'
                 /\ calls'[lastCall'] = hdrs[lastCall']
       /\ (result' = "OkSome" /\ result # "OkSome") =>
            /\ lastCall = 7
            /\ hdr'.number_of_section = 8
            /\ calls'[0] = 1 /\ hdrs'[1] = 1 /\ hdrs'[8] = 1
            /\ hdrs'[0] = 0 /\ hdrs'[9] = 0
            /\ \A n \in 1 .. 7 : calls'[n] = hdrs'[n]
            /\ hdrs'[3] >= 1 /\ hdrs'[4] >= hdrs'[3] /\ hdrs'[2] <= hdrs'[3]
      ]_vars

\* C3 witness: a message with a Local Use section and two 4-5-6-7 groups decoded
C3_Witness ==
    /\ result = "OkSome"
    /\ calls[2] = 1 /\ calls[3] = 1 /\ calls[7] = 2

\* C4: the header read after a Data section: a number other than 2, 3, 4, 8
\* returns Err(InvalidData("invalid section number")) with no callback
\* invoked; number 8, as the 4-byte sentinel or as a real header, returns
\* Ok(Some(())).
C4_AfterData ==
    [][(HeaderRead /\ sec = 7) =>
         LET n == hdr'.number_of_section IN
         /\ n \notin {2, 3, 4, 8} =>
               /\ result' = "Err"
               /\ err'.kind = "InvalidData"
               /\ err'.msg = "invalid section number"
               /\ calls' = calls
         /\ n = 8 => result' = "OkSome"
         /\ n \in {2, 3, 4} => result' = "None"
      ]_vars

\* C4 witness: a header numbered 5 after a Data section was rejected
C4_Witness ==
    /\ pc = "done" /\ prev = 7
    /\ hdr.number_of_section = 5
    /\ err.msg = "invalid section number"

\* C5: a message with one Grid Definition section and n >= 1 groups 4,5,6,7:
\* when Ok(Some(())) is returned handle_grid_definition was invoked once and
\* the callbacks of sections 4, 5, 6 and 7 n times each.
C5_RepeatCounts ==
    (result = "OkSome" /\ hdrs[3] = 1) =>
        /\ calls[3] = 1
        /\ hdrs[4] >= 1
        /\ \A s \in 4 .. 7 : calls[s] = hdrs[4]

\* C5 witness: one grid definition, two groups
C5_Witness ==
    /\ result = "OkSome"
    /\ hdrs[3] = 1 /\ hdrs[4] = 2
    /\ calls[4] = 2 /\ calls[7] = 2

\* the section number the code requires of the header that follows section p
\* (p = 0: the Indicator), as the claim lists them
ExpectedAfter(p) == IF p = 0 THEN 1 ELSE IF p \in {1, 2} THEN 3 ELSE p + 1

\* what the section-number check does on a mismatch
RejectsNumber(expected) ==
    /\ result' = "Err"
    /\ err'.kind = "InvalidData"
    /\ err'.expected = expected
    /\ err'.actual = hdr.number_of_section
    /\ pos' = pos
    /\ calls' = calls

\* C6 as stated: after the Indicator and after each of sections 1..6 a header
\* whose number is not the expected one (3 after section 1 or 2) is rejected.
C6_Original ==
    [][(pc = "section" /\ prev \in 0 .. 6
          /\ hdr.number_of_section # ExpectedAfter(prev))
          => RejectsNumber(ExpectedAfter(prev))]_vars

\* C6 amended: as C6, except that after section 1 a header numbered 2 is not
\* rejected: it is read as a Local Use section.
C6_SectionNumberCheck ==
    [][(pc = "section" /\ prev \in 0 .. 6
          /\ hdr.number_of_section # ExpectedAfter(prev)
          /\ ~(prev = 1 /\ hdr.number_of_section = 2))
          => RejectsNumber(ExpectedAfter(prev))]_vars

\* C6 witness: a header numbered 6 where section 5 is expected was rejected
\* before any byte of the section was read
C6_Witness ==
    /\ pc = "done" /\ prev = 4
    /\ hdr.number_of_section = 6
    /\ err.expected = 5 /\ err.actual = 6
    /\ pos = secStart + 5

\* C7: a call made with no byte left in the stream returns Ok(None) and
\* invokes no callback.
C7_EndOfStreamAtBoundary ==
    (pc = "done" /\ pos = callStart) =>
        /\ result = "OkNone"
        /\ err = NoError
        /\ calls = ZeroCalls

\* C7 witness: the call after a decoded message found the stream at its end
C7_Witness ==
    /\ pc = "done" /\ pos = callStart
    /\ msgs = 1
    /\ result = "OkNone"

\* C8: a call that obtained at least one byte and then found the stream's
\* end returns Err.
C8_TruncatedIsError ==
    (pc = "done" /\ eof /\ pos > callStart) => result = "Err"

\* C9: a call goes on to the Indicator iff the four bytes are 'G','R','I','B'
\* in stream order; any other four bytes return Err(InvalidData) with no
\* callback invoked and no further byte read.
C9_MagicCheck ==
    Len(magic) = 4 =>
        IF magic = GRIBBytes
        THEN /\ pc # "start"
             /\ pc = "done" => (pos > callStart + 4 \/ (eof /\ err.kind = "IO"))
        ELSE /\ pc = "done" /\ result = "Err"
             /\ err.kind = "InvalidData"
             /\ calls = ZeroCalls
             /\ pos = callStart + 4

\* C9 witness: the bytes 'B','I','R','G' were rejected
C9_Witness ==
    /\ magic = <<66, 73, 82, 71>>
    /\ result = "Err"

\* C10: an edition byte other than 2 returns Err(InvalidData) at once:
\* handle_indicator is not invoked, total_length and section headers are not
\* read, no callback is invoked.
C10_EditionCheck ==
    edition \notin {-1, 2} =>
        /\ pc = "done" /\ result = "Err"
        /\ err.kind = "InvalidData"
        /\ calls = ZeroCalls
        /\ hdrs = ZeroHdrs
        /\ pos = callStart + 4 + SumSeq(IndicatorFieldsToEdition)

\* C10 witness: edition 3 was rejected
C10_Witness ==
    /\ edition = 3
    /\ result = "Err"
    /\ pos = callStart + 8

\* C11: no underflow in body length. body_len() never aborts and never
\* wraps around: whenever a section's callback runs, the limit of its
\* sub-reader started as the non-negative integer section_length - overhead
\* (a shorter section having been rejected as "section too short").
C11_NoUnderflow ==
    /\ result # "Panic"
    /\ (pc = "callback" /\ sec >= 1) =>
          /\ LengthCoversFixedFields(sec, hdr.section_length)
          /\ limit + cbRead >= 0

\* C12: when a section's callback is entered the header reader and the
\* section's read() have consumed exactly the overhead body_len() subtracts,
\* and the body handed to the callback is the remaining
\* section_length - overhead bytes, so that header + fixed fields + body
\* = section_length.
C12_BodyLen ==
    (pc = "callback" /\ sec >= 1 /\ cbCalls = 0) =>
        /\ pos - secStart = Overhead(sec, hdr.section_length)
        /\ limit >= 0
        /\ (pos - secStart) + limit = hdr.section_length

\* the template numbers the crate has a reader for (templates/*.rs: 3.0;
\* 4.0, 4.8; 5.200) or its callers name (4.50011)
SupportedTemplate(s, t) ==
    CASE s = 3 -> t = 0
      [] s = 4 -> t \in {0, 8, 50011}
      [] s = 5 -> t = 200
      [] OTHER -> TRUE

\* C13: unrecognized template numbers are surfaced. When the callback of a
\* Grid Definition, Product Definition or Data Representation section whose
\* template number is outside the supported set is over, the call returns
\* Err: it never goes on to drain the section's body.
C13_TemplatesSurfaced ==
    [][(pc = "callback" /\ sec \in 3 .. 5 /\ ~SupportedTemplate(sec, template)
          /\ pc' # "callback")
          => (pc' = "done" /\ result' = "Err")]_vars

\* C14: all-or-nothing decode. The step in which a call fails invokes no
\* callback and is not a drain; after a call has returned Err or Ok(None)
\* nothing more is read or invoked; Ok(Some(())) is returned only on the End
\* section, when every section read had its callback invoked and every
\* section header read (the End included) starts where the section before it
\* ends, i.e. each body was drained in full.
C14_AllOrNothing ==
    [][/\ (result = "None" /\ result' = "Err") =>
            /\ calls' = calls
            /\ pc' = "done"
            /\ pc # "drain"
            /\ err' # NoError
       /\ result \in {"Err", "OkNone"} => UNCHANGED vars
       /\ (result = "None" /\ result' = "OkSome") =>
            /\ hdr'.number_of_section = 8
            /\ err' = NoError
            /\ \A n \in 1 .. 7 : calls'[n] = hdrs'[n]
       /\ (HeaderRead /\ sec >= 1) => secStart' = secStart + hdr.section_length
      ]_vars

\* C14 witness: the callback of a Product Definition section returned Err
\* after reading one byte, and the call returned that Err
C14_Witness ==
    /\ result = "Err" /\ err.msg = "callback"
    /\ lastCall = 4 /\ cbRead = 1
    /\ pos = secStart + 9 + 1

\* C15: SectionHeader::read. If allow_end is true (the header follows a Data
\* section) and the four bytes are "7777" it returns {4, 8} having consumed
\* 4 bytes; otherwise, "7777" with allow_end false included, it returns the
\* big-endian value of the four bytes as section_length and has consumed 5
\* bytes.
C15_SectionHeaderRead ==
    [][HeaderRead =>
         IF AllowEnd(sec) /\ raw' = <<55, 55, 55, 55>>
         THEN /\ hdr' = [section_length |-> 4, number_of_section |-> 8]
              /\ pos' = pos + 4
         ELSE /\ hdr'.section_length
                   = raw'[1] * 16777216 + raw'[2] * 65536 + raw'[3] * 256 + raw'[4]
              /\ pos' = pos + 5
      ]_vars

\* C15 witness: "7777" read where the End section is not allowed was taken
\* as a length, and a fifth byte was read
C15_Witness ==
    /\ raw = <<55, 55, 55, 55>>
    /\ prev = 3
    /\ hdr = [section_length |-> END_SECTION, number_of_section |-> 4]
    /\ pos >= secStart + 5

\* C17: one message per call over a stream of well-formed messages. Every
\* call returns Ok(Some(())) or Ok(None); a call that returns Ok(Some(()))
\* has consumed the 16 bytes of magic and Indicator, each section in full and
\* the 4-byte sentinel, so that the next call starts at the byte after the
\* sentinel; Ok(None) is returned by the call that starts at the end of the
\* stream, having read nothing.
C17_OneMessagePerCall ==
    [][/\ result' \in {"None", "OkSome", "OkNone"}
       /\ (HeaderRead /\ sec = 0) => secStart' = callStart + 16
       /\ (HeaderRead /\ sec >= 1) => secStart' = secStart + hdr.section_length
       /\ (result = "None" /\ result' = "OkSome") =>
            /\ raw' = <<55, 55, 55, 55>>
            /\ pos' = secStart' + 4
            /\ msgs' = msgs + 1
       /\ (result = "OkSome" /\ result' = "None") => callStart' = pos /\ pos' = pos
       /\ (result = "None" /\ result' = "OkNone") => pos' = callStart /\ pc = "start"
      ]_vars

\* C17 witness: two messages were decoded by two calls and the third call
\* returned Ok(None)
C17_Witness ==
    /\ WellFormed
    /\ msgs = 2
    /\ result = "OkNone"
    /\ pos = callStart

\* C18: read_data_7_200 called with number_of_bits other than 8 returns the
\* unsupported-feature error, having read no byte and produced no value.
C18_UnsupportedBits ==
    (dpc \notin {"idle", "entry"} /\ drs_template.number_of_bits # 8) =>
        /\ dpc = "done"
        /\ dresult = "ErrUnsupportedData"
        /\ consumed = 0
        /\ values = <<>>

\* C18 witness: a 16-bit template was rejected although payload bytes were there
C18_Witness ==
    /\ dresult = "ErrUnsupportedData"
    /\ drs_template.number_of_bits = 16
    /\ size > 0 /\ Len(payload) >= size
    /\ consumed = 0

\* C19: a level k > 0 whose k-1 is not an index of
\* mvl_scaled_representative_values never makes read_data_7_200 panic: it
\* returns an error value.
C19_OutOfTableIsError ==
    dresult # "PanicIndexOutOfBounds"

\* the elements of a vector kept as runs
RECURSIVE Elements(_)
Elements(runs) ==
    IF runs = <<>> THEN <<>>
    ELSE LET r == Head(runs) IN
         [i \in 1 .. (r.count.hi * 65536 + r.count.lo) |-> r.value] \o Elements(Tail(runs))

\* a payload of size bytes, each at most mv and each either 0 or a level of the table
LiteralPayload ==
    /\ dpc # "idle"
    /\ drs_template.number_of_bits = 8
    /\ Len(payload) = size
    /\ \A i \in 1 .. size :
         /\ payload[i] <= drs_template.mv
         /\ payload[i] <= Len(drs_template.mvl_scaled_representative_values)

\* C20: literal case. For a payload of size bytes, every byte at most mv and
\* every non-zero byte a level of the table, read_data_7_200 returns Ok with
\* exactly size elements, element i being None if byte i is 0 and
\* Some(table[byte i - 1]) otherwise.
C20_LiteralCase ==
    (LiteralPayload /\ dpc = "done") =>
        /\ dresult = "Ok"
        /\ Elements(values) =
             [i \in 1 .. size |->
                IF payload[i] = 0 THEN [some |-> FALSE, v |-> 0]
                ELSE [some |-> TRUE,
                      v |-> drs_template.mvl_scaled_representative_values[payload[i]]]]

\* the value the level byte k stands for (k = 0 or a level of the table)
ValueOfLevel(k) ==
    IF k = 0 THEN [some |-> FALSE, v |-> 0]
    ELSE [some |-> TRUE, v |-> drs_template.mvl_scaled_representative_values[k]]

\* the level byte k is 0 or a level of the table
LevelInTable(k) == k <= Len(drs_template.mvl_scaled_representative_values)

\* the payload [lv0, mv + 1, lv1] with size = 3 and lv0, lv1 <= mv
SingleContinuation ==
    /\ dpc # "idle"
    /\ drs_template.number_of_bits = 8
    /\ size = 3
    /\ Len(payload) = 3
    /\ payload[1] <= drs_template.mv
    /\ payload[2] = drs_template.mv + 1
    /\ payload[3] <= drs_template.mv

\* C21 as stated: for the payload [lv0, mv + 1, lv1] with size = 3,
\* read_data_7_200 returns lv0's value twice and then lv1's value once, 3
\* elements.
C21_Original ==
    (SingleContinuation /\ LevelInTable(payload[1]) /\ LevelInTable(payload[3])
        /\ dpc = "done") =>
        /\ dresult = "Ok"
        /\ Elements(values) =
             <<ValueOfLevel(payload[1]), ValueOfLevel(payload[1]), ValueOfLevel(payload[3])>>

\* C21: single continuation. For the payload [lv0, mv + 1, lv1] with size = 3
\* (lv0, lv1 <= mv) the array read_data_7_200 returns is lv0's value once
\* followed by lv1's value once, exactly 2 elements: the continuation byte
\* mv + 1 is the digit 0 and adds nothing to the run. An array is returned
\* only if lv0 and lv1 are 0 or levels of the table, and no error value is
\* returned for this payload.
C21_SingleContinuation ==
    (SingleContinuation /\ dpc = "done") =>
        /\ dresult = "Ok" => (LevelInTable(payload[1]) /\ LevelInTable(payload[3]))
        /\ dresult = "Ok" =>
              Elements(values) = <<ValueOfLevel(payload[1]), ValueOfLevel(payload[3])>>
        /\ dresult \notin {"ErrIO", "ErrUnsupportedData"}

\* C21 witness: [1, 2, 0] with mv = 1 was decoded to two elements
C21_Witness ==
    /\ SingleContinuation
    /\ dresult = "Ok"
    /\ payload[1] = 1 /\ payload[3] = 0
    /\ Len(Elements(values)) = 2

\* a natural number that is either a u32 (v) or too big for one
Fits(x) == [big |-> FALSE, v |-> x]
TooBig == [big |-> TRUE, v |-> U32(0)]
TimesByte(x, k) ==
    IF k = 0 THEN Fits(U32(0))
    ELSE IF x.big \/ U32MulOverflows(x.v, k) THEN TooBig
    ELSE Fits(U32Mul(x.v, k))
Plus(x, y) ==
    IF x.big \/ y.big \/ U32AddOverflows(x.v, y.v) THEN TooBig
    ELSE Fits(U32Add(x.v, y.v))

\* acc + sum over j = i..Len(bs) of (bs[j] - mv - 1) * (255 - mv)^(j-1),
\* where pow is (255 - mv)^(i-1)
RECURSIVE FormulaFrom(_, _, _, _, _)
FormulaFrom(bs, mv, i, pow, acc) ==
    IF i > Len(bs) THEN acc
    ELSE FormulaFrom(bs, mv, i + 1, TimesByte(pow, 255 - mv),
                     Plus(acc, TimesByte(pow, bs[i] - mv - 1)))

\* 1 + sum over i = 1..n of (b_i - mv - 1) * (255 - mv)^(i-1)
RunLengthFormula(bs, mv) == FormulaFrom(bs, mv, 1, Fits(U32(1)), Fits(U32(1)))

\* the inner loop has left by its break: the byte just read ends the run
RunEndedByLevel == loop_p < size

\* the continuation bytes of the run that has just ended
RunContinuationBytes ==
    LET n == IF RunEndedByLevel THEN consumed - 1 - run_start ELSE consumed - run_start
    IN [i \in 1 .. n |-> payload[run_start + i]]

\* C22: run-length formula. A run made of a level byte followed by n >= 0
\* continuation bytes b_1..b_n (each > mv) is emitted with exactly
\* 1 + sum over i of (b_i - mv - 1) * (255 - mv)^(i-1) elements; the run ends
\* at the first byte <= mv, which becomes the level of the next run, or at
\* the end of the payload; no run is cut short by an arithmetic abort.
C22_RunLengthFormula ==
    /\ dresult # "PanicOverflow"
    /\ dpc = "emit" =>
        LET bs == RunContinuationBytes
            f == RunLengthFormula(bs, drs_template.mv)
        IN /\ \A i \in 1 .. Len(bs) : bs[i] > drs_template.mv
           /\ RunEndedByLevel =>
                 /\ payload[consumed] <= drs_template.mv
                 /\ next = payload[consumed]
           /\ ~f.big
           /\ run_length = f.v

\* the level bytes among the first n bytes of the payload, in payload order:
\* the first byte, and every later byte that is <= mv
RECURSIVE LevelBytes(_)
LevelBytes(n) ==
    IF n = 0 THEN <<>>
    ELSE IF n = 1 \/ payload[n] <= drs_template.mv
         THEN Append(LevelBytes(n - 1), payload[n])
         ELSE LevelBytes(n - 1)

\* C23: level mapping and order. The result of read_data_7_200 is the
\* concatenation, in payload order, of the runs: the i-th run pushed belongs
\* to the i-th level byte of the payload, and its elements are None if that
\* byte is 0 and Some(mvl_scaled_representative_values[k-1]) if it is k > 0.
C23_LevelMapping ==
    dresult = "Ok" =>
        LET levels == LevelBytes(size) IN
        /\ Len(values) = Len(levels)
        /\ \A i \in 1 .. Len(values) : values[i].value = ValueOfLevel(levels[i])

\* C23 witness: a result of three runs: None, then a longer run of the
\* table's second entry, then the table's first entry
C23_Witness ==
    /\ dresult = "Ok"
    /\ Len(values) = 3
    /\ values[1].value = [some |-> FALSE, v |-> 0]
    /\ values[2].value = [some |-> TRUE, v |-> 20]
    /\ values[2].count # U32(1)
    /\ values[3].value = [some |-> TRUE, v |-> 10]

\* C24: byte-bounded consumption. For every size >= 0 read_data_7_200 never
\* reads more than size bytes from the stream, and when it returns Ok its
\* position counter p equals size and exactly size bytes have been consumed.
C24_ByteBounded ==
    /\ consumed <= size
    /\ dresult = "Ok" => (loop_p = size /\ consumed = size)

\* C25: no overflow in run-length arithmetic. Whenever a continuation byte
\* is about to be accounted for, 255 - mv does not underflow, and the term
\* (next - mv - 1) * m, the sum run_length + term and the product
\* m * (255 - mv) all fit the 32-bit unsigned type of run_length and m.
C25_NoOverflow ==
    (/\ dpc = "inner" /\ loop_p < size /\ consumed < Len(payload)
     /\ payload[consumed + 1] > drs_template.mv) =>
        LET b == payload[consumed + 1]
            mv == drs_template.mv
        IN /\ 255 - mv >= 0
           /\ ~U32MulOverflows(loop_m, b - mv - 1)
           /\ ~U32AddOverflows(run_length, U32Mul(loop_m, b - mv - 1))
           /\ ~U32MulOverflows(loop_m, 255 - mv)

\* the callbacks that follow one another once a Data section has been handled
FollowsAfterData ==
    {<<7, 2>>, <<7, 3>>, <<7, 4>>, <<2, 3>>, <<3, 4>>, <<4, 5>>, <<5, 6>>, <<6, 7>>}

\* C26: new grid inside one message. A header numbered 3 after a Data
\* section makes the same read_next_message call read a Grid Definition
\* section (handle_grid_definition) and then require a section 4; a header
\* numbered 2 makes it read a Local Use section (handle_local_use), then
\* require a section 3 (handle_grid_definition), then a section 4; the
\* message still ends only at a section 8.
C26_NewGrid ==
    [][/\ (HeaderRead /\ sec = 7 /\ hdr'.number_of_section \in {2, 3}) =>
            /\ pc' = "section"
            /\ sec' = hdr'.number_of_section
            /\ result' = "None"
            /\ callStart' = callStart
       /\ (calls[7] >= 1 /\ pc = "section" /\ calls' # calls) =>
            /\ <<lastCall, lastCall'>> \in FollowsAfterData
            /\ lastCall' = hdr.number_of_section
            /\ callStart' = callStart
       /\ (calls[7] >= 1 /\ pc = "section" /\ prev \in {2, 3}
             /\ hdr.number_of_section # prev + 1) =>
            /\ result' = "Err"
            /\ err'.kind = "InvalidData"
            /\ err'.expected = prev + 1
            /\ calls' = calls
       /\ (calls[7] >= 1 /\ result = "None" /\ result' = "OkSome") =>
            hdr'.number_of_section = 8
      ]_vars

\* C26 witness: after a Data section the same call has handled a Local Use
\* section and has entered handle_grid_definition a second time, for the
\* section 3 that followed it
C26_Witness ==
    /\ pc = "callback" /\ lastCall = 3 /\ prev = 2
    /\ calls[7] = 1 /\ calls[2] = 1
    /\ calls[3] = 2 /\ calls[4] = 1

\* C27: Local Use is optional and at most one per grid. handle_local_use is
\* invoked only for a header numbered 2 read where a Grid Definition may
\* start (after section 1 or after a Data section), and such a header is
\* always read as a Local Use section, whose callback is entered unless the
\* body length aborts; a message decoded without any section 2 has had no
\* handle_local_use; a header numbered 2 right after a Local Use section is
\* rejected with Err(InvalidData): section 3 is required there.
C27_LocalUseOptional ==
    [][/\ calls'[2] > calls[2] =>
            /\ pc = "section" /\ sec = 2
            /\ hdr.number_of_section = 2
            /\ prev \in {1, 7}
            /\ calls'[2] = calls[2] + 1
            /\ calls'[2] <= calls[3] + 1
       /\ (HeaderRead /\ sec \in {1, 7} /\ hdr'.number_of_section = 2) =>
            (pc' = "section" /\ sec' = 2)
       /\ (pc = "section" /\ sec = 2) =>
            \/ calls'[2] = calls[2] + 1 /\ pc' = "callback" /\ lastCall' = 2
            \/ result' = "Panic"
       /\ (result' = "OkSome" /\ hdrs'[2] = 0) => calls'[2] = 0
       /\ (pc = "section" /\ prev = 2 /\ hdr.number_of_section = 2) =>
            /\ result' = "Err"
            /\ err'.kind = "InvalidData"
            /\ err'.expected = 3
            /\ err'.actual = 2
            /\ calls' = calls
      ]_vars

\* C27 witness: the second of two consecutive sections numbered 2 was
\* rejected after handle_local_use had run once
C27_Witness ==
    /\ pc = "done" /\ result = "Err"
    /\ prev = 2 /\ hdr.number_of_section = 2
    /\ err.expected = 3 /\ err.actual = 2
    /\ calls[2] = 1 /\ hdrs[2] = 2

\* the Indicator has been read in this call and no section after it yet
IndicatorJustRead == lastCall = 0 /\ pc \in {"callback", "drain", "header"}

\* the header that follows the Indicator has been read
FirstHeaderRead == lastCall = 0 /\ pc \in {"section", "done"} /\ hdrs # ZeroHdrs

\* C28 as stated: after the 4-byte magic the Indicator reader consumes
\* exactly 16 further bytes before handle_indicator is invoked and the
\* Identification section header is read.
C28_Original ==
    /\ IndicatorJustRead => pos = callStart + 4 + 16
    /\ FirstHeaderRead => secStart = callStart + 4 + 16

\* C28: Indicator size. After the 4-byte magic the Indicator reader consumes
\* exactly 12 further bytes (reserved 2, discipline 1, edition 1,
\* total_length 8) before handle_indicator is invoked, and handle_indicator
\* reads nothing: the Identification section header is read at the
\* message's start plus 16.
C28_IndicatorSize ==
    /\ IndicatorJustRead => pos = callStart + 4 + 12
    /\ FirstHeaderRead => secStart = callStart + 4 + 12

\* C28 witness: in the second message of a stream the Identification
\* section's header has been read 16 bytes after the message's start
C28_Witness ==
    /\ FirstHeaderRead
    /\ callStart > 0
    /\ pc = "section" /\ sec = 1
    /\ hdr.number_of_section = 1
    /\ secStart = callStart + 16

\* handle_identification has been entered and the next header is not read yet
IdentificationEntered == sec = 1 /\ lastCall = 1 /\ pc \in {"callback", "drain"}

\* C29: Identification legacy form. IdentificationSectionHeader::read reads
\* the 2-byte template number iff section_length # 21: it has consumed 16
\* bytes after the 5-byte header when section_length = 21 and 18 otherwise.
\* With section_length = 21 body_len() is 0, handle_identification gets an
\* empty sub-reader and reads nothing, and the next header is read at the
\* section's start + 21.
C29_LegacyIdentification ==
    /\ IdentificationEntered =>
          pos - cbRead = secStart + 5 + (IF hdr.section_length = 21 THEN 16 ELSE 16 + 2)
    /\ (IdentificationEntered /\ hdr.section_length = 21) =>
          /\ limit = 0
          /\ cbRead = 0
          /\ pos = secStart + 21
    /\ (pc = "header" /\ sec = 1 /\ hdr.section_length = 21) =>
          pos = secStart + 21

\* C29 witness: a 21-byte Identification section whose callback tried to
\* read and got nothing; the next header is due at the section's start + 21
C29_Witness ==
    /\ pc = "header" /\ sec = 1
    /\ hdr.section_length = 21
    /\ cbCalls >= 1 /\ cbRead = 0
    /\ pos = secStart + 21

\* the big-endian u16 at bytes i, i + 1 of the reader handed to read
ReaderU16(i) == tpl_reader[i] * 256 + tpl_reader[i + 1]

\* the mvl the reader's bytes 4-5 declare (the reader holds at least 6 bytes)
DeclaredMvl == ReaderU16(4)

\* C30: template 5.200's table read is bounded by mvl. On success
\* DataRepresentationTemplate5_200::read has consumed exactly 6 + 2*mvl
\* bytes: number_of_bits (1), mv (2), mvl (2), decimal scale factor (1) and
\* mvl big-endian u16 entries, and mvl_scaled_representative_values holds
\* exactly those mvl entries in stream order; with fewer bytes in the
\* sub-reader it returns an I/O error and no table, reading nothing beyond
\* the sub-reader.
C30_TableBoundedByMvl ==
    /\ tpl_consumed <= Len(tpl_reader)
    /\ tpl_result = "Ok" =>
          /\ Len(tpl_reader) >= 6
          /\ tpl.number_of_bits = tpl_reader[1]
          /\ tpl.mv = ReaderU16(2)
          /\ tpl.mvl = DeclaredMvl
          /\ tpl.decimal_scale_factor = tpl_reader[6]
          /\ tpl_consumed = 6 + 2 * tpl.mvl
          /\ Len(tpl.mvl_scaled_representative_values) = tpl.mvl
          /\ \A i \in 1 .. tpl.mvl :
                tpl.mvl_scaled_representative_values[i] = ReaderU16(6 + 2 * i - 1)
    /\ tpl_pc = "done" =>
          (tpl_result = "ErrIO") =
              (Len(tpl_reader) < 6 \/ Len(tpl_reader) < 6 + 2 * DeclaredMvl)
    /\ tpl_pc = "done" => tpl_result \in {"Ok", "ErrIO"}

\* C30 witness: a table of two entries was read from a 10-byte body
C30_Witness ==
    /\ tpl_result = "Ok"
    /\ tpl.mvl = 2
    /\ tpl_consumed = 10
    /\ tpl.mvl_scaled_representative_values = <<258, 513>>

\* the count byte of the body handed to ProductDefinitionTemplate4_8::read
\* (the body holds at least 33 bytes)
DeclaredTimeRanges == pd_reader[33]

\* the big-endian u32 at bytes i .. i + 3 of that body
BodyU32(i) ==
    ((pd_reader[i] * 256 + pd_reader[i + 1]) * 256 + pd_reader[i + 2]) * 256 + pd_reader[i + 3]

\* C31: template 4.8 time-range count. ProductDefinitionTemplate4_8::read
\* reads the fixed fields (32 bytes), then one count byte n, then exactly n
\* TimeRange records of 16 bytes: on success time_ranges has length n
\* (possibly 0) and holds the records in stream order; if the sub-reader
\* ends before n records are read it returns an error, reading nothing
\* beyond the sub-reader.
C31_TimeRangeCount ==
    /\ pd_consumed <= Len(pd_reader)
    /\ pd_result = "Ok" =>
          /\ Len(pd_reader) >= 33
          /\ pd.parameter_category = pd_reader[1]
          /\ pd.forecast_time = BodyU32(10)
          /\ pd.year = pd_reader[26] * 256 + pd_reader[27]
          /\ pd.second = pd_reader[32]
          /\ Len(time_ranges) = DeclaredTimeRanges
          /\ pd_consumed = 33 + 16 * DeclaredTimeRanges
          /\ \A i \in 1 .. Len(time_ranges) :
                LET at == 33 + 16 * (i - 1)
                    r == time_ranges[i]
                IN /\ r.total_number_of_data_values_missing = BodyU32(at + 1)
                   /\ r.statistical_process = pd_reader[at + 5]
                   /\ r.type_of_time_increment = pd_reader[at + 6]
                   /\ r.indicator_of_unit_of_time = pd_reader[at + 7]
                   /\ r.length_of_the_time_range = BodyU32(at + 8)
                   /\ r.indicator_of_unit_of_length_of_time_range = pd_reader[at + 12]
                   /\ r.time_increment = BodyU32(at + 13)
    /\ pd_pc = "done" =>
          /\ pd_result \in {"Ok", "ErrIO"}
          /\ (pd_result = "ErrIO") =
                (Len(pd_reader) < 33 \/ Len(pd_reader) < 33 + 16 * DeclaredTimeRanges)

\* C31 witness: a count of 2 and two different time ranges were read
C31_Witness ==
    /\ pd_result = "Ok"
    /\ Len(time_ranges) = 2
    /\ time_ranges[1].statistical_process # time_ranges[2].statistical_process
    /\ pd_consumed = 65

\* C32: termination of the message reader. Every read_next_message call on
\* a finite stream with callbacks that return comes to its end (Ok(None),
\* Ok(Some(())) or Err; the abort of C11 ends a call as well), and every
\* header read that keeps the call inside its loops has taken 5 bytes from
\* the stream.
C32_ReaderTerminates ==
    /\ (pc # "done") ~> (pc = "done")
    /\ [][(HeaderRead /\ pc' # "done") =>
            (pos' = pos + 5 /\ secStart' = pos /\ pos' <= StreamBound)]_vars

\* C32 witness: a call that went round the inner loop came to its end at
\* the end of the stream, in its second Product Definition section
C32_Witness ==
    /\ pc = "done"
    /\ calls[7] = 1 /\ calls[4] = 2
    /\ result = "Err" /\ err.kind = "IO"

\* the four bytes "7777"
SentinelBytes == <<55, 55, 55, 55>>

\* C33: End is accepted only after a complete field group. A call returns
\* Ok(Some(())) only after handle_data has been invoked in that call; the
\* "7777" sentinel is recognised (header {4, 8}, 4 bytes consumed) only at
\* the header position right after a Data section, and at the header
\* positions after the Indicator and after sections 1..6 the same four bytes
\* are taken as a section length, followed by a section-number byte.
C33_EndOnlyAfterData ==
    /\ [](result = "OkSome" => (calls[7] >= 1 /\ lastCall = 7))
    /\ [][/\ (HeaderRead /\ pos' = pos + 4) =>
                (sec = 7 /\ lastCall = 7 /\ calls[7] >= 1 /\ raw' = SentinelBytes)
          /\ (HeaderRead /\ sec \in 0 .. 6 /\ raw' = SentinelBytes) =>
                (hdr'.section_length = 926365495 /\ pos' = pos + 5 /\ result' # "OkSome")
         ]_vars

\* C33 witness: "7777" where the Bit-Map section's header is expected was
\* taken as the length of a section numbered 6, and handle_bitmap was entered
C33_Witness ==
    /\ raw = SentinelBytes
    /\ prev = 5
    /\ hdr.number_of_section = 6
    /\ pc = "callback" /\ lastCall = 6
    /\ calls[7] = 0

\* the value p had when the current run started, after the outer loop's
\* p += 1: p has grown by one for each continuation byte consumed since
RunStartP == loop_p - (consumed - run_start)

\* C34: termination of the run-length decoder. Every call of
\* read_data_7_200 comes to its end; p strictly increases on every turn of
\* the outer loop and never passes size, so the outer loop runs at most
\* size times (one run is pushed per turn), and the continuation bytes
\* consumed for one run are at most the size - p left when the run started.
C34_DecoderTerminates ==
    /\ (dpc # "done") ~> (dpc = "done")
    /\ [](loop_p <= size /\ Len(values) <= loop_p)
    /\ [](dpc = "inner" =>
            /\ \A i \in run_start + 1 .. consumed : payload[i] > drs_template.mv
            /\ consumed - run_start <= size - RunStartP)
    /\ [][/\ (dpc = "outer" /\ dpc' = "inner") =>
                (loop_p' = loop_p + 1 /\ RunStartP' = loop_p')
          /\ (dpc = "inner" /\ dpc' = "inner") =>
                (loop_p' = loop_p + 1 /\ RunStartP' = RunStartP)
         ]_vars

\* C34 witness: a call whose one run took every byte left as a continuation
\* byte has come to its end
C34_Witness ==
    /\ dpc = "done" /\ dresult = "Ok"
    /\ size = 4 /\ Len(values) = 1
    /\ consumed = 4

\* C35: the run-length decoder does not look at the value count. What a
\* call of read_data_7_200 does is the same for every value of
\* drs.number_of_values: the one place that evaluates it, the creation of
\* the result vector, has the same outcomes for any other value as for the
\* value passed, and no call ends there.
C35_IndependentOfValueCount ==
    /\ dpc = "entry" =>
          \A n \in ValueCounts : WithCapacityOutcomes(n) = WithCapacityOutcomes(number_of_values)
    /\ dresult # "PanicCapacityOverflow"
====
